---- MODULE Spec2Model ----
(***************************************************************************)
(* Model of backend/server.js of idea-to-startup.  The file holds two      *)
(* deployment variants of the same gateway:                                *)
(*   "classic"    (lines 1-133)   long-running process, eager connect,     *)
(*                                clientPromise handed to the session store*)
(*   "serverless" (lines 134-271) lazy connectDB() with the cache          *)
(*                                cached = { conn, promise }               *)
(* One behaviour of the model is one process lifetime of one variant.      *)
(* Every action is one run-to-completion step of the Node event loop: the  *)
(* synchronous code between two awaits.                                    *)
(***************************************************************************)
EXTENDS Integers, Sequences, FiniteSets

\* Number of HTTP requests that arrive during the process lifetime.
MaxReqs == 2

Reqs == 1..MaxReqs

Variants == {"classic", "serverless"}

\* cached.conn === null (line 149); connection handles are 1, 2, ...
NoHandle == 0

\* An error object without a status property (err.status is undefined).
NoStatus == 0

\* process.env.GOOGLE_CLIENT_URL when the variable is not set.
Undefined == "<undefined>"

\* A request that carries no Origin header (origin is undefined in the callback).
NoOrigin == "<no-origin>"

FrontendUrl == "https://app.example"

\* Values of the Origin header the gateway is exercised with.  "" is an
\* Origin header with an empty value; "undefined" is the nine-letter string.
Origins ==
  {NoOrigin, "", "http://localhost:5173", "http://localhost:3000",
   FrontendUrl, "http://evil.example", "undefined"}

\* Errors a mounted route handler throws or passes to next().
RouteErrors ==
  {[status |-> NoStatus, message |-> "boom"],
   [status |-> 404, message |-> "Not found"]}

CorsError == [status |-> NoStatus, message |-> "Not allowed by CORS"]

ConnectError == [status |-> NoStatus, message |-> "connect failed"]

NoErr == [status |-> NoStatus, message |-> "<none>"]

NoRes == [status |-> 0, success |-> TRUE, message |-> "<none>"]

\* A 2xx answer of a mounted route collaborator.
OkRes == [status |-> 200, success |-> TRUE, message |-> "OK"]

\* res.status(200).json({ status: "OK", message: "Backend running", ... })
HealthRes == [status |-> 200, success |-> TRUE, message |-> "Backend running"]

VARIABLES
  variant,        \* which of the two programs of the file is running
  clientUrl,      \* process.env.GOOGLE_CLIENT_URL
  proc,           \* "running" | "exited"
  exitCode,       \* argument of process.exit, -1 while running
  connState,      \* mongoose.connect: "idle" | "connecting" | "connected" | "failed"
  connectCalls,   \* number of invocations of mongoose.connect
  promise,        \* clientPromise / cached.promise: "null" | "pending" | "fulfilled" | "rejected"
  promiseValue,   \* the handle the promise is fulfilled with
  cachedConn,     \* cached.conn
  returned,       \* handles returned by completed connectDB() calls
  mig,            \* position of the then-callback: "none" | "unset" | "drop" | "sync" | "done"
  migLog,         \* the migration steps attempted, in order, with their outcome
  migRuns,        \* number of times the try block of the then-callback was entered
  storeCount,     \* number of MongoStore.create calls
  storeOps,       \* session-store operations served through clientPromise
  req             \* per request: pc, origin, err, res

vars ==
  <<variant, clientUrl, proc, exitCode, connState, connectCalls, promise,
    promiseValue, cachedConn, returned, mig, migLog, migRuns, storeCount,
    storeOps, req>>

connVars == <<connState, connectCalls, promise, promiseValue, mig, migLog, migRuns>>

procVars == <<proc, exitCode>>

envVars == <<variant, clientUrl>>

NewReq == [pc |-> "new", origin |-> NoOrigin, err |-> NoErr, res |-> NoRes]

----------------------------------------------------------------------------
\* Module load.  The classic variant calls mongoose.connect and
\* MongoStore.create while the module is evaluated; the serverless variant
\* only initialises the cache.
Init ==
  /\ variant \in Variants
  /\ clientUrl \in {Undefined, FrontendUrl}
  /\ proc = "running"
  /\ exitCode = -1
  /\ connState = IF variant = "classic" THEN "connecting" ELSE "idle"
  /\ connectCalls = IF variant = "classic" THEN 1 ELSE 0
  /\ promise = IF variant = "classic" THEN "pending" ELSE "null"
  /\ promiseValue = NoHandle
  /\ cachedConn = NoHandle
  /\ returned = {}
  /\ mig = "none"
  /\ migLog = <<>>
  /\ migRuns = 0
  /\ storeCount = IF variant = "classic" THEN 1 ELSE 0
  /\ storeOps = 0
  /\ req = [r \in Reqs |-> NewReq]

----------------------------------------------------------------------------
(* Connection attempt and index migration: lines 14-46 and 152-188.        *)

\* The order of the statements of the try block (lines 20-35, 162-176).
StepOrder == <<"model", "unset", "drop", "sync">>

\* Variant of ThenCallbackRuns: the callback registered for both outcomes
\* (.finally, or .then(f, f)).
ThenCallbackRunsAlways(ok) == TRUE

\* .then(async (m) => ...) registers a fulfilment callback only: the
\* callback, and so the migration, runs iff mongoose.connect fulfilled.
ThenCallbackRuns(ok) == ok

\* Variant of MigAfter without the try/catch around the steps.
MigAfterNoTry(step, ok) ==
  CASE step = "model" -> IF ok THEN "unset" ELSE "thrown"
    [] step = "unset" -> IF ok THEN "drop" ELSE "thrown"
    [] step = "drop"  -> "sync"
    [] step = "sync"  -> IF ok THEN "done" ELSE "thrown"

\* Variant of MigAfter without the .catch on dropIndex: a failed drop leaves
\* the try block like any other failure.
MigAfterDropAborts(step, ok) ==
  CASE step = "model" -> IF ok THEN "unset" ELSE "done"
    [] step = "unset" -> IF ok THEN "drop" ELSE "done"
    [] step = "drop"  -> IF ok THEN "sync" ELSE "done"
    [] step = "sync"  -> "done"

\* Where the then-callback is after `step` ended with outcome `ok`.
\*   model, unset: a throw leaves the try block for the catch (lines 37, 178),
\*                 which logs; the callback then returns the handle;
\*   drop:         dropIndex(...).catch(...) swallows the rejection, so the
\*                 callback goes on to syncIndexes either way;
\*   sync:         last statement of the try block.
\* "thrown" (the callback rejects) is what an uncaught failure would give.
MigAfter(step, ok) ==
  CASE step = "model" -> IF ok THEN "unset" ELSE "done"
    [] step = "unset" -> IF ok THEN "drop" ELSE "done"
    [] step = "drop"  -> "sync"
    [] step = "sync"  -> "done"

\* Variant of ClassicCatch that only logs: the handler returns undefined and
\* clientPromise is fulfilled with it.
ClassicCatchLogsOnly == [proc |-> "running", exitCode |-> -1, promise |-> "fulfilled"]

\* The .catch of the classic chain (lines 43-46): process.exit(1) does not
\* return, so clientPromise is never settled.
ClassicCatch == [proc |-> "exited", exitCode |-> 1, promise |-> "pending"]

\* The promise chain rejects: the classic variant runs its .catch, the
\* serverless variant has none and cached.promise is a rejected promise.
Rejects ==
  IF variant = "classic"
  THEN /\ proc' = ClassicCatch.proc
       /\ exitCode' = ClassicCatch.exitCode
       /\ promise' = ClassicCatch.promise
       /\ promiseValue' = NoHandle
  ELSE /\ promise' = "rejected"
       /\ UNCHANGED <<promiseValue, procVars>>

\* The then-callback moved to `next`: at "done" it returns the handle
\* (lines 41, 182) and the promise is fulfilled with it.
Continues(next) ==
  CASE next = "done" ->
         /\ promise' = "fulfilled"
         /\ promiseValue' = connectCalls
         /\ UNCHANGED procVars
    [] next = "thrown" -> Rejects
    [] OTHER -> UNCHANGED <<promise, promiseValue, procVars>>

\* mongoose.connect settles.  On fulfilment the then-callback starts and runs
\* up to its first await: it looks the User model up (m.model can throw,
\* inside the try block) and issues updateMany.
ConnectSettles(ok, modelOk) ==
  /\ proc = "running"
  /\ connState = "connecting"
  /\ connState' = IF ok THEN "connected" ELSE "failed"
  /\ IF ThenCallbackRuns(ok)
     THEN /\ migRuns' = migRuns + 1
          /\ migLog' = Append(migLog, [step |-> "model", ok |-> modelOk])
          /\ mig' = MigAfter("model", modelOk)
          /\ Continues(MigAfter("model", modelOk))
     ELSE /\ UNCHANGED <<mig, migLog, migRuns>>
          /\ Rejects
  /\ UNCHANGED <<envVars, connectCalls, cachedConn, returned, storeCount, storeOps, req>>

\* One awaited migration step settles and the callback runs to its next await.
MigStep(step, ok) ==
  /\ proc = "running"
  /\ mig = step
  /\ migLog' = Append(migLog, [step |-> step, ok |-> ok])
  /\ mig' = MigAfter(step, ok)
  /\ Continues(MigAfter(step, ok))
  /\ UNCHANGED <<envVars, connState, connectCalls, migRuns, cachedConn, returned,
                 storeCount, storeOps, req>>

\* await User.updateMany({supabaseUserId: null}, {$unset: ...})
MigUnset == \E ok \in BOOLEAN : MigStep("unset", ok)

\* await User.collection.dropIndex("supabaseUserId_1").catch(...)
MigDrop == \E ok \in BOOLEAN : MigStep("drop", ok)

\* await User.syncIndexes()
MigSync == \E ok \in BOOLEAN : MigStep("sync", ok)

Connect == \E ok, modelOk \in BOOLEAN : ConnectSettles(ok, modelOk)

----------------------------------------------------------------------------
(* Request pipeline: lines 63-127 (classic) and 203-268 (serverless).      *)
(* Middleware that does not await runs in the tick of its caller, so a     *)
(* request is suspended only where the code awaits: the lazy connect, the  *)
(* session store and the mounted route collaborators.                      *)

\* const allowedOrigins = [process.env.GOOGLE_CLIENT_URL, ...]: the first
\* element is the value undefined when the variable is not set.
allowedOrigins == {clientUrl, "http://localhost:5173", "http://localhost:3000"}

\* !origin: undefined (no header) and the empty string are falsy.
Falsy(origin) == origin \in {NoOrigin, ""}

\* Variant of CorsAllows with the list built from strings (`${...}`), where an
\* unset variable becomes the string "undefined".
CorsAllowsCoerced(origin) ==
  \/ Falsy(origin)
  \/ origin \in allowedOrigins
  \/ clientUrl = Undefined /\ origin = "undefined"

\* The origin callback handed to cors(): callback(null, true) iff this holds,
\* callback(new Error("Not allowed by CORS")) otherwise.  Array.includes
\* compares with SameValueZero, so no string equals an undefined element.
CorsAllows(origin) == Falsy(origin) \/ origin \in allowedOrigins

\* res.status(...) of the terminal error handler: err.status || 500 in the
\* classic variant (line 123), the literal 500 in the serverless one (line 264).
ErrorStatus(v, err) ==
  IF v = "classic"
  THEN IF err.status # NoStatus THEN err.status ELSE 500
  ELSE 500

\* message: err.message || "Internal Server Error"
ErrorMessage(err) == IF err.message # "" THEN err.message ELSE "Internal Server Error"

\* Variant of ShouldStartAttempt that looks at cached.conn only, so a call
\* made while an attempt is in flight starts another one.
ShouldStartAttemptConnOnly == cachedConn = NoHandle

\* if (!cached.promise): connectDB starts an attempt only when none is cached.
ShouldStartAttempt == promise = "null"

SetReq(r, rec) == req' = [req EXCEPT ![r] = rec]

Goto(r, pc) == SetReq(r, [req[r] EXCEPT !.pc = pc])

Responded(r, res) == [req[r] EXCEPT !.pc = "done", !.res = res]

\* The terminal error handler (lines 121-127, 262-268), reached through
\* next(err) in the tick in which the error is raised.
ErrorHandler(r, err) ==
  [req[r] EXCEPT !.pc = "done",
                 !.err = err,
                 !.res = [status |-> ErrorStatus(variant, err),
                          success |-> FALSE,
                          message |-> ErrorMessage(err)]]

\* A request arrives (requests are numbered in their order of arrival), the
\* body parsers pass it on and cors() calls the origin callback.  On an error
\* cors calls next(err), which skips every non-error middleware up to the
\* terminal error handler.
Arrive(r, origin) ==
  /\ proc = "running"
  /\ req[r].pc = "new"
  /\ \A q \in Reqs : q < r => req[q].pc # "new"
  /\ IF CorsAllows(origin)
     THEN SetReq(r, [req[r] EXCEPT !.pc = "session", !.origin = origin])
     ELSE SetReq(r, [ErrorHandler(r, CorsError) EXCEPT !.origin = origin])
  /\ UNCHANGED <<envVars, procVars, connVars, cachedConn, returned, storeCount, storeOps>>

\* Classic session middleware (lines 77-96): the store was created at module
\* load.  A request with a session cookie makes express-session read the
\* store, which waits for clientPromise; without a cookie the store is not
\* touched (saveUninitialized: false).
SessionClassic(r) ==
  /\ proc = "running"
  /\ variant = "classic"
  /\ req[r].pc = "session"
  /\ \E cookie \in BOOLEAN :
       IF cookie
       THEN promise = "fulfilled" /\ storeOps' = storeOps + 1
       ELSE UNCHANGED storeOps
  /\ Goto(r, "route")
  /\ UNCHANGED <<envVars, procVars, connVars, cachedConn, returned, storeCount>>

\* The synchronous part of connectDB() (lines 153-186): return cached.conn
\* if set (the caller goes on as `hit`); otherwise start an attempt unless
\* one is cached, and suspend at `await cached.promise` (the caller is left
\* at `wait`).
ConnectDBCall(r, hit, wait) ==
  IF cachedConn # NoHandle
  THEN /\ returned' = returned \cup {cachedConn}
       /\ SetReq(r, hit)
       /\ UNCHANGED <<connState, connectCalls, promise>>
  ELSE /\ IF ShouldStartAttempt
          THEN /\ connectCalls' = connectCalls + 1
               /\ connState' = "connecting"
               /\ promise' = "pending"
          ELSE UNCHANGED <<connState, connectCalls, promise>>
       /\ SetReq(r, [req[r] EXCEPT !.pc = wait])
       /\ UNCHANGED returned

\* Serverless session middleware (lines 215-235): await connectDB(), then
\* build a store with MongoStore.create({ mongoUrl }) and a session
\* middleware around it, and apply that to this request.
SessionServerless(r) ==
  /\ proc = "running"
  /\ variant = "serverless"
  /\ req[r].pc = "session"
  /\ ConnectDBCall(r, [req[r] EXCEPT !.pc = "route"], "awaitSession")
  /\ storeCount' = IF cachedConn # NoHandle THEN storeCount + 1 ELSE storeCount
  /\ UNCHANGED <<envVars, procVars, promiseValue, mig, migLog, migRuns, cachedConn,
                 storeOps>>

\* cached.promise settled while a connectDB() call awaits it (line 186).
\* Fulfilled: cached.conn is assigned and the call returns it; the session
\* middleware goes on to build its store, the health check answers 200.
\* Rejected: connectDB() throws into the async middleware, whose promise
\* rejects.  Whether the router observes that rejection depends on the
\* Express major version installed (5 passes it to next(err); 4 ignores the
\* returned promise, leaving an unhandled rejection and no response), which
\* the source does not fix: both outcomes are taken.
ConnectDBResume(r) ==
  /\ proc = "running"
  /\ req[r].pc \in {"awaitSession", "awaitHealth"}
  /\ \/ /\ promise = "fulfilled"
        /\ cachedConn' = promiseValue
        /\ returned' = returned \cup {promiseValue}
        /\ IF req[r].pc = "awaitSession"
           THEN Goto(r, "route") /\ storeCount' = storeCount + 1
           ELSE SetReq(r, Responded(r, HealthRes)) /\ UNCHANGED storeCount
     \/ /\ promise = "rejected"
        /\ \E forwarded \in BOOLEAN :
             IF forwarded
             THEN SetReq(r, ErrorHandler(r, ConnectError))
             ELSE SetReq(r, [req[r] EXCEPT !.pc = "unanswered", !.err = ConnectError])
        /\ UNCHANGED <<cachedConn, returned, storeCount>>
  /\ UNCHANGED <<envVars, procVars, connVars, storeOps>>

\* A mounted route collaborator (lines 106-108, 245-247) answers the request.
RouteOk(r) ==
  /\ proc = "running"
  /\ req[r].pc = "route"
  /\ SetReq(r, Responded(r, OkRes))
  /\ UNCHANGED <<envVars, procVars, connVars, cachedConn, returned, storeCount, storeOps>>

\* A mounted route collaborator throws or calls next(err).
RouteThrows(r, err) ==
  /\ proc = "running"
  /\ req[r].pc = "route"
  /\ SetReq(r, ErrorHandler(r, err))
  /\ UNCHANGED <<envVars, procVars, connVars, cachedConn, returned, storeCount, storeOps>>

\* GET / (lines 111-118, 250-259): the serverless handler awaits connectDB()
\* before it answers, the classic one answers at once.
HealthCheck(r) ==
  /\ proc = "running"
  /\ req[r].pc = "route"
  /\ IF variant = "serverless"
     THEN ConnectDBCall(r, Responded(r, HealthRes), "awaitHealth")
     ELSE /\ SetReq(r, Responded(r, HealthRes))
          /\ UNCHANGED <<connState, connectCalls, promise, returned>>
  /\ UNCHANGED <<envVars, procVars, promiseValue, mig, migLog, migRuns, cachedConn,
                 storeCount, storeOps>>

Next ==
  \/ Connect
  \/ MigUnset
  \/ MigDrop
  \/ MigSync
  \/ \E r \in Reqs : \E origin \in Origins : Arrive(r, origin)
  \/ \E r \in Reqs : SessionClassic(r)
  \/ \E r \in Reqs : SessionServerless(r)
  \/ \E r \in Reqs : ConnectDBResume(r)
  \/ \E r \in Reqs : RouteOk(r)
  \/ \E r \in Reqs : \E err \in RouteErrors : RouteThrows(r, err)
  \/ \E r \in Reqs : HealthCheck(r)

Spec == Init /\ [][Next]_vars

----------------------------------------------------------------------------
(* Properties.                                                             *)

\* Requests that got past `await connectDB()` in the session middleware.
PastConnect == {r \in Reqs : req[r].pc = "route" \/ (req[r].pc = "done" /\ req[r].res.status = 200)}

\* C1: in the serverless variant mongoose.connect is invoked at most once in
\* a process lifetime, however the connectDB() calls of concurrent requests
\* interleave, and every connectDB() call that returned gave the same handle,
\* the one held in cached.conn.
ConnectOnceSameHandle ==
  variant = "serverless" =>
    /\ connectCalls <= 1
    /\ Cardinality(returned) <= 1
    /\ returned \subseteq {cachedConn}
    /\ PastConnect # {} => cachedConn # NoHandle

\* C1 witness: a request has returned from connectDB() while another one,
\* which called during the same attempt, still awaits it.
ConnectSharedWitness ==
  /\ variant = "serverless"
  /\ connectCalls = 1
  /\ returned # {}
  /\ \E r1, r2 \in Reqs : req[r1].pc = "route" /\ req[r2].pc = "awaitSession"

\* C2: a connectDB() call made after the cached attempt has rejected starts a
\* new connection attempt.
RetryAfterFailedAttempt ==
  [][\A r \in Reqs :
       (promise = "rejected" /\ req[r].pc = "session" /\ req'[r].pc # "session")
         => connectCalls' = connectCalls + 1]_vars

\* C3: the migration is started exactly once per successful connection: it
\* has not started while the connection is idle or being opened, it does not
\* start when the connection fails, and no later connectDB() call or request
\* starts it again.
MigrationOncePerConnection ==
  /\ migRuns = IF connState = "connected" THEN 1 ELSE 0
  /\ connState # "connected" => mig = "none" /\ migLog = <<>>
  /\ connState = "connected" => mig # "none" /\ migLog # <<>>

\* C3 witness: the migration ran to its end once and two requests have since
\* been served over the same connection.
MigrationOnceWitness ==
  /\ migRuns = 1
  /\ mig = "done"
  /\ \E r1, r2 \in Reqs : r1 # r2 /\ {r1, r2} \subseteq PastConnect

\* C4: once the connection has succeeded, no failure of a migration step
\* makes the attempt fail: the process keeps running, the promise is never
\* rejected and is fulfilled with the handle when the callback ends, and in
\* the serverless variant no connectDB() call fails and cached.conn is set
\* for every request that got past it.
MigrationFailureKeepsHandle ==
  connState = "connected" =>
    /\ proc = "running"
    /\ promise \in {"pending", "fulfilled"}
    /\ mig = "done" <=> promise = "fulfilled"
    /\ promise = "fulfilled" => promiseValue # NoHandle
    /\ \A r \in Reqs : req[r].pc # "unanswered" /\ req[r].err # ConnectError
    /\ variant = "serverless" /\ PastConnect # {} => cachedConn = promiseValue

\* C4 witness: the drop and the sync both failed and a serverless request
\* went on with the cached handle.
MigrationFailureWitness ==
  /\ variant = "serverless"
  /\ Len(migLog) = 4
  /\ ~migLog[3].ok
  /\ ~migLog[4].ok
  /\ cachedConn # NoHandle
  /\ PastConnect # {}

\* C5: the steps run in the order unset, drop, sync; after the drop attempt,
\* failed or not, the sync is the next step and is attempted before the
\* callback ends, and the attempt is not rejected.
DropFailureDoesNotAbort ==
  /\ Len(migLog) <= 4
  /\ \A i \in DOMAIN migLog : migLog[i].step = StepOrder[i]
  /\ Len(migLog) = 3 => mig = "sync"
  /\ Len(migLog) >= 3 => promise # "rejected" /\ proc = "running"

\* C5 witness: the drop failed and the sync was attempted after it.
DropFailureWitness ==
  /\ Len(migLog) = 4
  /\ migLog[3] = [step |-> "drop", ok |-> FALSE]
  /\ migLog[4].step = "sync"

\* C6: every request that hit an error has been answered by the terminal
\* error handler with success: false, and none is left without a response.
EveryErrorAnswered ==
  \A r \in Reqs :
    /\ req[r].pc # "unanswered"
    /\ req[r].err # NoErr => req[r].pc = "done" /\ ~req[r].res.success

\* C7: in both variants the error response carries the error's status code
\* when it has one and 500 otherwise, with success: false.
ErrorStatusFromError ==
  \A r \in Reqs :
    (req[r].pc = "done" /\ req[r].err # NoErr) =>
      /\ req[r].res.status = IF req[r].err.status # NoStatus THEN req[r].err.status ELSE 500
      /\ ~req[r].res.success

\* The allow-list as the specification words it: the configured frontend URL
\* (when configured) and the two local development origins.
ListedOrigins ==
  (IF clientUrl = Undefined THEN {} ELSE {clientUrl})
    \cup {"http://localhost:5173", "http://localhost:3000"}

\* A request rejected by cors is answered by the error handler at once, with
\* a status outside 2xx, and is never in session handling or a route.
RejectedByCors(r) ==
  /\ req[r].err = CorsError
  /\ req[r].pc = "done"
  /\ req[r].res.status \notin 200..299

\* C8 as stated: a request is let through iff it has no Origin header or its
\* Origin is listed; any other request is rejected.
CorsIffNoHeaderOrListed ==
  \A r \in Reqs :
    req[r].pc # "new" =>
      IF req[r].origin = NoOrigin \/ req[r].origin \in ListedOrigins
      THEN req[r].err # CorsError
      ELSE RejectedByCors(r)

\* C8 amended: a request is let through iff it has no Origin header, an
\* Origin header with an empty value, or a listed Origin; any other request
\* is rejected, also when the frontend URL is not configured.
CorsIffFalsyOrListed ==
  \A r \in Reqs :
    req[r].pc # "new" =>
      IF req[r].origin \in {NoOrigin, ""} \/ req[r].origin \in ListedOrigins
      THEN req[r].err # CorsError
      ELSE RejectedByCors(r)

\* C8 witness: with the frontend URL not configured, a request from the
\* frontend URL was rejected and one from a local origin reached a route.
CorsWitness ==
  /\ clientUrl = Undefined
  /\ \E r1, r2 \in Reqs :
       /\ req[r1].origin = FrontendUrl /\ RejectedByCors(r1)
       /\ req[r2].origin = "http://localhost:5173" /\ req[r2].pc = "route"

\* C9: in the long-running variant the connection is attempted exactly once,
\* a failed attempt ends the process with exit code 1, and the session store
\* is only ever used over a connection that opened.
ClassicConnectFailureIsFatal ==
  variant = "classic" =>
    /\ connectCalls = 1
    /\ connState = "failed" => proc = "exited" /\ exitCode = 1
    /\ proc = "exited" => connState = "failed"
    /\ storeOps > 0 => connState = "connected" /\ promise = "fulfilled"

\* C9 witness: the connection failed while a request was in the session
\* middleware; the process is gone and the store was never used.
ClassicFatalWitness ==
  /\ variant = "classic"
  /\ proc = "exited"
  /\ exitCode = 1
  /\ storeOps = 0
  /\ \E r \in Reqs : req[r].pc = "session"

\* C10: at most one session store is constructed in a process lifetime.
AtMostOneSessionStore == storeCount <= 1

====
